---- MODULE Spec2Model ----
(***************************************************************************)
(* Route construction, feasibility checking, violation repair and the      *)
(* route managers of goodspeed-route-analyzer.                             *)
(*                                                                         *)
(* Three programs of the repository are modelled, one per value of `app`:  *)
(*   "vrptw_manager"            src/vrptw_manager.py                        *)
(*   "route_optimizer"          src/route_optimizer.py                      *)
(*   "goodspeed_route_analyzer" src/goodspeed_route_analyzer.py             *)
(* A behaviour runs one of them; the fields of the other two stay at the   *)
(* values they have before construction.                                   *)
(*                                                                         *)
(* Python values: None is the empty tuple, a time string 'HH:MM' is the    *)
(* pair <<HH, MM>>, a list is a sequence (Python index i is position i+1), *)
(* the value a call returns is named in ret.value ("True", "False",        *)
(* "None", "tuple", "list"), the parts of a returned tuple or the list     *)
(* returned are the other fields.                                          *)
(***************************************************************************)
EXTENDS Integers, Sequences, FiniteSets, TLC

VARIABLES
    app,                  \* which program runs
    orders,               \* RouteManager.orders (vrptw_manager / route_optimizer)
    sample_orders,        \* the caller's list: the one being built or last handed over
    loop,                 \* locals of an optimize_route call that is run step by step
    optimizer,            \* vrptw RouteManager.optimizer: None or <<start_time_minutes>>
    travel_time_matrix,   \* vrptw RouteManager.travel_time_matrix: None or a matrix
    delivery_points,      \* tracker RouteManager.delivery_points
    current_index,        \* tracker RouteManager.current_index (0-based)
    completed_count,      \* tracker RouteManager.completed_count
    total_count,          \* tracker RouteManager.total_count
    call,                 \* the last call: its name and the start time passed (0 when none)
    ret,                  \* what the last call returned
    out                   \* the message the last call printed ("" when none)

vars == <<app, orders, sample_orders, loop, optimizer, travel_time_matrix, delivery_points,
          current_index, completed_count, total_count, call, ret, out>>

None == <<>>

(***************************************************************************)
(* Bounds of the model.                                                    *)
(***************************************************************************)
MaxStops == 3

Ids == 1..MaxStops
\* an id no stored stop has
UnknownId == MaxStops + 1
\* 0-based indices a caller may pass, out-of-range ones included
Indices == (0 - 1)..MaxStops
\* start times passed to re_optimize / optimize_route, as 'HH:MM'
StartTimes == {<<8, 0>>, <<8, 20>>}

(***************************************************************************)
(* Python list helpers.                                                    *)
(***************************************************************************)
\* list.pop(i), i a 1-based position
PopAt(s, i) == SubSeq(s, 1, i - 1) \o SubSeq(s, i + 1, Len(s))

\* mutant of InsertAt: x is written over the element at position i
InsertAt_overwrites(s, i, x) ==
    IF i > Len(s) THEN Append(s, x) ELSE [s EXCEPT ![i] = x]

\* list.insert(i - 1, x): x ends at 1-based position i, or last when i > len + 1
InsertAt(s, i, x) ==
    IF i > Len(s) THEN Append(s, x)
    ELSE SubSeq(s, 1, i - 1) \o <<x>> \o SubSeq(s, i, Len(s))

\* list.index(x) + 1: the first position holding a value equal to x
IndexOf(s, x) == CHOOSE i \in 1..Len(s) : s[i] = x /\ \A j \in 1..(i - 1) : s[j] # x

\* list.remove(x): drops the first element equal to x
Remove(s, x) == PopAt(s, IndexOf(s, x))

Range(s) == {s[i] : i \in 1..Len(s)}

IdsOf(s) == [i \in 1..Len(s) |-> s[i].id]

(***************************************************************************)
(* src/vrptw_manager.py                                                    *)
(***************************************************************************)
time_to_minutes(time_str) == time_str[1] * 60 + time_str[2]

\* Order(id, ..., time_window_end, is_delivered); address and coordinates are
\* carried by the id (no operation of the manager or the optimizer reads them)
VOrder(id, time_window_end, is_delivered) ==
    [id |-> id, time_window_end |-> time_window_end, is_delivered |-> is_delivered]

v_has_time_window(o) == o.time_window_end # None

v_end_minutes(o) == time_to_minutes(o.time_window_end)

\* penalty factor for arriving after the limit
LatePenalty == 100
\* "within 30 minutes before the limit"
UrgentMinutes == 30
\* bonus for urgency
UrgentBonus == 5

\* score of a candidate reached after travel_time at arrival_time
v_score(candidate, travel_time, arrival_time) ==
    IF v_has_time_window(candidate)
    THEN IF arrival_time > v_end_minutes(candidate)
         THEN travel_time + (arrival_time - v_end_minutes(candidate)) * LatePenalty
         ELSE IF arrival_time > v_end_minutes(candidate) - UrgentMinutes
              THEN travel_time - UrgentBonus
              ELSE travel_time
    ELSE travel_time

\* order_indices = {o.id: i for i, o in enumerate(orders)}: the last position of id
order_indices(os, id) ==
    CHOOSE i \in 1..Len(os) : os[i].id = id /\ \A j \in (i + 1)..Len(os) : os[j].id # id

\* the for loop over remaining_orders: the first candidate with the least score
v_best_remaining_idx(remaining_orders, remaining_indices, current_time, current_idx, M) ==
    LET sc(k) == v_score(remaining_orders[k], M[current_idx][remaining_indices[k]],
                         current_time + M[current_idx][remaining_indices[k]])
    IN CHOOSE k \in 1..Len(remaining_orders) :
          /\ \A j \in 1..Len(remaining_orders) : sc(k) <= sc(j)
          /\ \A j \in 1..(k - 1) : sc(j) > sc(k)

\* the while loop: place the best candidate, advance the clock by the travel time
RECURSIVE v_nearest_neighbor(_, _, _, _, _, _)
v_nearest_neighbor(optimized_route, remaining_orders, remaining_indices, current_time, current_idx, M) ==
    IF remaining_orders = <<>> THEN optimized_route
    ELSE LET b == v_best_remaining_idx(remaining_orders, remaining_indices,
                                       current_time, current_idx, M)
             best_order_idx == remaining_indices[b]
         IN v_nearest_neighbor(Append(optimized_route, remaining_orders[b]),
                               PopAt(remaining_orders, b),
                               PopAt(remaining_indices, b),
                               current_time + M[current_idx][best_order_idx],
                               best_order_idx, M)

\* min(orders_with_windows, key=lambda o: o._end_minutes): the first of the least
v_min_end(os) ==
    os[CHOOSE k \in 1..Len(os) :
          /\ \A j \in 1..Len(os) : v_end_minutes(os[k]) <= v_end_minutes(os[j])
          /\ \A j \in 1..(k - 1) : v_end_minutes(os[j]) > v_end_minutes(os[k])]

\* mutant of v_delivered_orders: the delivered stops are not appended
v_delivered_orders_dropped(os) == <<>>

\* delivered_orders, appended after the optimized pending stops
v_delivered_orders(os) == SelectSeq(os, LAMBDA o : o.is_delivered)

\* RouteOptimizer.optimize_route(orders, travel_time_matrix)
v_optimize_route(os, M, start_time_minutes) ==
    IF os = <<>> THEN <<>>
    ELSE IF Len(os) = 1 THEN os
    ELSE LET undelivered == SelectSeq(os, LAMBDA o : ~o.is_delivered)
             undelivered_indices ==
                 [k \in 1..Len(undelivered) |-> order_indices(os, undelivered[k].id)]
             orders_with_windows == SelectSeq(undelivered, v_has_time_window)
             first_order == IF orders_with_windows # <<>>
                            THEN v_min_end(orders_with_windows)
                            ELSE undelivered[1]
             first_idx == IndexOf(undelivered, first_order)
         IN IF undelivered = <<>> THEN os
            ELSE IF Len(undelivered) = 1 THEN os
            ELSE v_nearest_neighbor(<<first_order>>,
                                    PopAt(undelivered, first_idx),
                                    PopAt(undelivered_indices, first_idx),
                                    start_time_minutes,
                                    order_indices(os, first_order.id), M)
                 \o v_delivered_orders(os)

\* mutant of move_order: the upper bound is tested with > instead of >=
move_order_off_by_one(os, order_id, new_index) ==
    IF ~(\E i \in 1..Len(os) : os[i].id = order_id)
    THEN [orders |-> os, value |-> FALSE, out |-> "order not found"]
    ELSE LET cur == (CHOOSE i \in 1..Len(os) :
                        os[i].id = order_id /\ \A j \in 1..(i - 1) : os[j].id # order_id) - 1
         IN IF new_index < 0 \/ new_index > Len(os)
            THEN [orders |-> os, value |-> FALSE, out |-> "invalid index"]
            ELSE IF cur = new_index
            THEN [orders |-> os, value |-> TRUE, out |-> "already at position"]
            ELSE [orders |-> InsertAt(PopAt(os, cur + 1), new_index + 1, os[cur + 1]),
                  value |-> TRUE, out |-> "moved"]

\* mutant of move_order: the stop changes places with the one at new_index
move_order_swap(os, order_id, new_index) ==
    IF ~(\E i \in 1..Len(os) : os[i].id = order_id)
    THEN [orders |-> os, value |-> FALSE, out |-> "order not found"]
    ELSE LET cur == (CHOOSE i \in 1..Len(os) :
                        os[i].id = order_id /\ \A j \in 1..(i - 1) : os[j].id # order_id) - 1
         IN IF new_index < 0 \/ new_index >= Len(os)
            THEN [orders |-> os, value |-> FALSE, out |-> "invalid index"]
            ELSE IF cur = new_index
            THEN [orders |-> os, value |-> TRUE, out |-> "already at position"]
            ELSE [orders |-> [os EXCEPT ![cur + 1] = os[new_index + 1],
                                        ![new_index + 1] = os[cur + 1]],
                  value |-> TRUE, out |-> "moved"]

\* mutant of move_order: a move to the current position is reported as a failure
move_order_same_position_fails(os, order_id, new_index) ==
    IF ~(\E i \in 1..Len(os) : os[i].id = order_id)
    THEN [orders |-> os, value |-> FALSE, out |-> "order not found"]
    ELSE LET cur == (CHOOSE i \in 1..Len(os) :
                        os[i].id = order_id /\ \A j \in 1..(i - 1) : os[j].id # order_id) - 1
         IN IF new_index < 0 \/ new_index >= Len(os)
            THEN [orders |-> os, value |-> FALSE, out |-> "invalid index"]
            ELSE IF cur = new_index
            THEN [orders |-> os, value |-> FALSE, out |-> "already at position"]
            ELSE [orders |-> InsertAt(PopAt(os, cur + 1), new_index + 1, os[cur + 1]),
                  value |-> TRUE, out |-> "moved"]

\* RouteManager.move_order(order_id, new_index): the list after the call, the
\* value returned and the message printed
move_order(os, order_id, new_index) ==
    IF ~(\E i \in 1..Len(os) : os[i].id = order_id)
    THEN [orders |-> os, value |-> FALSE, out |-> "order not found"]
    ELSE LET cur == (CHOOSE i \in 1..Len(os) :
                        os[i].id = order_id /\ \A j \in 1..(i - 1) : os[j].id # order_id) - 1
         IN IF new_index < 0 \/ new_index >= Len(os)
            THEN [orders |-> os, value |-> FALSE, out |-> "invalid index"]
            ELSE IF cur = new_index
            THEN [orders |-> os, value |-> TRUE, out |-> "already at position"]
            ELSE [orders |-> InsertAt(PopAt(os, cur + 1), new_index + 1, os[cur + 1]),
                  value |-> TRUE, out |-> "moved"]

\* mutant of mark_order_as_delivered: an unknown id falls through to return True
mark_order_as_delivered_default_true(os, order_id) ==
    IF ~(\E i \in 1..Len(os) : os[i].id = order_id)
    THEN [orders |-> os, value |-> TRUE, out |-> "order not found"]
    ELSE LET k == CHOOSE i \in 1..Len(os) :
                      os[i].id = order_id /\ \A j \in 1..(i - 1) : os[j].id # order_id
         IN IF os[k].is_delivered
            THEN [orders |-> os, value |-> TRUE, out |-> "already delivered"]
            ELSE [orders |-> [os EXCEPT ![k].is_delivered = TRUE],
                  value |-> TRUE, out |-> "delivered"]

\* mutant of mark_order_as_delivered: the flag is toggled instead of set
mark_order_as_delivered_toggle(os, order_id) ==
    IF ~(\E i \in 1..Len(os) : os[i].id = order_id)
    THEN [orders |-> os, value |-> FALSE, out |-> "order not found"]
    ELSE LET k == CHOOSE i \in 1..Len(os) :
                      os[i].id = order_id /\ \A j \in 1..(i - 1) : os[j].id # order_id
         IN [orders |-> [os EXCEPT ![k].is_delivered = ~os[k].is_delivered],
             value |-> TRUE, out |-> "delivered"]

\* RouteManager.mark_order_as_delivered(order_id)
mark_order_as_delivered(os, order_id) ==
    IF ~(\E i \in 1..Len(os) : os[i].id = order_id)
    THEN [orders |-> os, value |-> FALSE, out |-> "order not found"]
    ELSE LET k == CHOOSE i \in 1..Len(os) :
                      os[i].id = order_id /\ \A j \in 1..(i - 1) : os[j].id # order_id
         IN IF os[k].is_delivered
            THEN [orders |-> os, value |-> TRUE, out |-> "already delivered"]
            ELSE [orders |-> [os EXCEPT ![k].is_delivered = TRUE],
                  value |-> TRUE, out |-> "delivered"]

\* RouteManager.re_optimize: the optimizer is created on the first call only
re_optimize_optimizer(opt, start_time_minutes) ==
    IF opt = None THEN <<start_time_minutes>> ELSE opt

\* GoogleMapsIntegration.get_distance_matrix for n stops: zero diagonal, minutes
\* off it, more on the way back (j < i); the random draws are the three parameters
\* (base_time, a variation growing with the distance in the list, the way-back extra)
get_distance_matrix(n, base_time, per_stop, back) ==
    [i \in 1..n |-> [j \in 1..n |->
        IF i = j THEN 0
        ELSE base_time + per_stop * (IF i > j THEN i - j ELSE j - i)
             + (IF j < i THEN back ELSE 0)]]

\* <<base_time, per_stop, back>> of the matrices a caller passes
MatrixShapes == {<<15, 0, 0>>, <<10, 10, 5>>}

Matrices(n) == {get_distance_matrix(n, p[1], p[2], p[3]) : p \in MatrixShapes}

\* time_window_end of the stop with id i in the k-th table of sample stops
v_time_windows(k, i) ==
    CASE k = 1 -> None
      [] k = 2 -> (IF i = 2 THEN <<10, 0>> ELSE IF i = 3 THEN <<9, 30>> ELSE None)
      [] OTHER -> (IF i % 2 = 1 THEN <<8, 20>> ELSE <<8, 40>>)

VTables == 1..3

\* Order.generate_sample_orders(n): ids 1..n in order, limits from a table; the
\* first d stops are supplied as already delivered
v_sample_orders(n, k, d) ==
    [i \in 1..n |-> VOrder(i, v_time_windows(k, i), i <= d)]

VInputs == {v_sample_orders(n, k, d) : n \in 0..MaxStops, k \in VTables, d \in 0..1}

\* the lists a later load_orders call is given
VLoadInputs == {v_sample_orders(n, k, d) : n \in 0..MaxStops, k \in 1..2, d \in 0..1}

(***************************************************************************)
(* src/route_optimizer.py                                                  *)
(***************************************************************************)
time_to_seconds(time_str) == time_str[1] * 3600 + time_str[2] * 60

\* mutant of r_post_init_raises: a window whose start equals its end is accepted
r_post_init_raises_later_only(time_window_start, time_window_end) ==
    \/ time_window_start # None /\ time_window_end = None
    \/ /\ time_window_start # None /\ time_window_end # None
       /\ time_to_seconds(time_window_start) > time_to_seconds(time_window_end)

\* Order.__post_init__: TRUE when construction raises ValueError
r_post_init_raises(time_window_start, time_window_end) ==
    \/ time_window_start # None /\ time_window_end = None
    \/ /\ time_window_start # None /\ time_window_end # None
       /\ time_to_seconds(time_window_start) >= time_to_seconds(time_window_end)

\* Order(id, address, latitude, longitude, time_window_start, time_window_end);
\* stops lie on one meridian, latitude counted in kilometres of arc
ROrder(id, latitude, time_window_start, time_window_end) ==
    [id |-> id, latitude |-> latitude, longitude |-> 0,
     time_window_start |-> time_window_start, time_window_end |-> time_window_end]

r_has_time_window(o) == o.time_window_start # None

\* _start_seconds / _end_seconds, set when both ends of the window are given
r_start_seconds(o) == time_to_seconds(o.time_window_start)
r_end_seconds(o) == time_to_seconds(o.time_window_end)

can_be_visited_at(o, arrival_time_seconds) ==
    IF ~r_has_time_window(o) THEN TRUE
    ELSE r_start_seconds(o) <= arrival_time_seconds
         /\ arrival_time_seconds <= r_end_seconds(o)

\* haversine_distance on one meridian: the arc between the two latitudes, in km
haversine_distance(lat1, lon1, lat2, lon2) ==
    IF lat1 >= lat2 THEN lat1 - lat2 ELSE lat2 - lat1

average_speed_kmh == 30

\* calculate_travel_time: int(distance_km / average_speed_kmh * 3600)
calculate_travel_time(distance_km) == (distance_km * 3600) \div average_speed_kmh

r_travel(a, b) ==
    calculate_travel_time(haversine_distance(a.latitude, a.longitude,
                                              b.latitude, b.longitude))

\* one pass of the for loop of check_time_windows over route[i..]
RECURSIVE r_check_from(_, _, _, _, _)
r_check_from(route, i, current_time, arrival_times, all_valid) ==
    IF i > Len(route) THEN [all_valid |-> all_valid, arrival_times |-> arrival_times]
    ELSE LET order == route[i]
             arrived == IF i > 1 THEN current_time + r_travel(route[i - 1], order)
                        ELSE current_time
             waited == IF r_has_time_window(order) /\ arrived < r_start_seconds(order)
                       THEN r_start_seconds(order) ELSE arrived
             ok == IF r_has_time_window(order) THEN can_be_visited_at(order, waited)
                   ELSE TRUE
         IN r_check_from(route, i + 1, waited, Append(arrival_times, waited),
                         all_valid /\ ok)

\* RouteOptimizer.check_time_windows(route, start_time_seconds)
check_time_windows(route, start_time_seconds) ==
    r_check_from(route, 1, start_time_seconds, <<>>, TRUE)

\* 3600 * score of a candidate: distance, plus the wait in hours when early,
\* plus ten times the lateness in minutes when late
r_score(candidate, distance, arrival_time) ==
    IF r_has_time_window(candidate)
    THEN IF arrival_time < r_start_seconds(candidate)
         THEN distance * 3600 + (r_start_seconds(candidate) - arrival_time)
         ELSE IF arrival_time > r_end_seconds(candidate)
              THEN distance * 3600 + (arrival_time - r_end_seconds(candidate)) * 600
              ELSE distance * 3600
    ELSE distance * 3600

r_best_index(remaining_orders, current_order, current_time) ==
    LET dist(k) == haversine_distance(current_order.latitude, current_order.longitude,
                                      remaining_orders[k].latitude,
                                      remaining_orders[k].longitude)
        sc(k) == r_score(remaining_orders[k], dist(k),
                         current_time + calculate_travel_time(dist(k)))
    IN CHOOSE k \in 1..Len(remaining_orders) :
          /\ \A j \in 1..Len(remaining_orders) : sc(k) <= sc(j)
          /\ \A j \in 1..(k - 1) : sc(j) > sc(k)

RECURSIVE r_nearest_neighbor(_, _, _)
r_nearest_neighbor(optimized_route, remaining_orders, current_time) ==
    IF remaining_orders = <<>> THEN optimized_route
    ELSE LET current_order == optimized_route[Len(optimized_route)]
             best_order == remaining_orders[r_best_index(remaining_orders,
                                                         current_order, current_time)]
             arrived == current_time + r_travel(current_order, best_order)
             waited == IF r_has_time_window(best_order)
                          /\ arrived < r_start_seconds(best_order)
                       THEN r_start_seconds(best_order) ELSE arrived
         IN r_nearest_neighbor(Append(optimized_route, best_order),
                               Remove(remaining_orders, best_order), waited)

\* min(orders_with_windows, key=lambda o: o._start_seconds): the first of the least
r_min_start(os) ==
    os[CHOOSE k \in 1..Len(os) :
          /\ \A j \in 1..Len(os) : r_start_seconds(os[k]) <= r_start_seconds(os[j])
          /\ \A j \in 1..(k - 1) : r_start_seconds(os[j]) > r_start_seconds(os[k])]

\* what optimize_route returns for a one-stop list
r_single(os, start_time_seconds) ==
    [route |-> os, all_valid |-> TRUE, arrival_times |-> <<start_time_seconds>>]

\* RouteOptimizer.optimize_route(orders, start_time_seconds)
r_optimize_route(os, start_time_seconds) ==
    IF os = <<>> THEN [route |-> <<>>, all_valid |-> TRUE, arrival_times |-> <<>>]
    ELSE IF Len(os) = 1 THEN r_single(os, start_time_seconds)
    ELSE LET orders_with_windows == SelectSeq(os, r_has_time_window)
             first_order == IF orders_with_windows # <<>>
                            THEN r_min_start(orders_with_windows) ELSE os[1]
             t0 == IF r_has_time_window(first_order)
                      /\ r_start_seconds(first_order) > start_time_seconds
                   THEN r_start_seconds(first_order) ELSE start_time_seconds
             optimized_route == r_nearest_neighbor(<<first_order>>,
                                                   Remove(os, first_order), t0)
             checked == check_time_windows(optimized_route, start_time_seconds)
         IN [route |-> optimized_route, all_valid |-> checked.all_valid,
             arrival_times |-> checked.arrival_times]

\* mutant of r_violates: an arrival exactly at the window end counts as late
r_violates_at_end(o, arrival_time) ==
    r_has_time_window(o) /\ ~(r_start_seconds(o) <= arrival_time
                              /\ arrival_time < r_end_seconds(o))

\* order.has_time_window() and not order.can_be_visited_at(arrival_time)
r_violates(o, arrival_time) ==
    r_has_time_window(o) /\ ~can_be_visited_at(o, arrival_time)

\* sum(1 for o, at in zip(route, arrival_times) if ...): zip stops at the shorter
r_count_violations(route, arrival_times) ==
    Cardinality({i \in 1..Len(route) :
                    i <= Len(arrival_times) /\ r_violates(route[i], arrival_times[i])})

\* violations: (i, order, arrival_time) of every violating stop, in route order
r_violations(route, arrival_times) ==
    LET at == {i \in 1..Len(route) : r_violates(route[i], arrival_times[i])}
        nth(k) == CHOOSE i \in at : Cardinality({j \in at : j < i}) = k - 1
    IN [k \in 1..Cardinality(at) |->
           [violation_idx |-> nth(k) - 1, order |-> route[nth(k)],
            arrival_time |-> arrival_times[nth(k)]]]

\* the sort key: how late the arrival is
r_lateness(v) ==
    IF v.arrival_time > r_end_seconds(v.order)
    THEN v.arrival_time - r_end_seconds(v.order) ELSE 0

\* violations.sort(key=..., reverse=True): latest first, equal keys in their old order
r_sort_violations(violations) ==
    LET rank(i) == 1 + Cardinality({j \in 1..Len(violations) :
                        \/ r_lateness(violations[j]) > r_lateness(violations[i])
                        \/ r_lateness(violations[j]) = r_lateness(violations[i]) /\ j < i})
    IN [r \in 1..Len(violations) |->
           violations[CHOOSE i \in 1..Len(violations) : rank(i) = r]]

\* mutant of r_relocate: the stop is removed and not put back
r_relocate_removes(fixed_route, violated_order, new_pos) ==
    Remove(fixed_route, violated_order)

\* test_route.remove(violated_order); test_route.insert(new_pos, violated_order)
r_relocate(fixed_route, violated_order, new_pos) ==
    InsertAt(Remove(fixed_route, violated_order), new_pos + 1, violated_order)

\* the for loop over new_pos: the first position that makes the route valid,
\* else the last one with fewer violations than zip(fixed_route, arrival_times)
RECURSIVE r_best_position(_, _, _, _, _, _)
r_best_position(fixed_route, v, new_pos, best_position, arrival_times, start_time_seconds) ==
    IF new_pos >= Len(fixed_route) THEN best_position
    ELSE IF new_pos = v.violation_idx
    THEN r_best_position(fixed_route, v, new_pos + 1, best_position, arrival_times,
                         start_time_seconds)
    ELSE LET test_route == r_relocate(fixed_route, v.order, new_pos)
             test == check_time_windows(test_route, start_time_seconds)
         IN IF test.all_valid THEN new_pos
            ELSE IF r_count_violations(test_route, test.arrival_times)
                      < r_count_violations(fixed_route, arrival_times)
            THEN r_best_position(fixed_route, v, new_pos + 1, new_pos, arrival_times,
                                 start_time_seconds)
            ELSE r_best_position(fixed_route, v, new_pos + 1, best_position,
                                 arrival_times, start_time_seconds)

\* the for loop over the sorted violations, from the k-th on: the route it
\* leaves and whether it returned a valid route early
RECURSIVE r_fix_each(_, _, _, _, _)
r_fix_each(fixed_route, violations, k, arrival_times, start_time_seconds) ==
    IF k > Len(violations) THEN [route |-> fixed_route, returned |-> FALSE]
    ELSE LET v == violations[k]
             best_position == r_best_position(fixed_route, v, 0, v.violation_idx,
                                              arrival_times, start_time_seconds)
             moved == IF best_position # v.violation_idx
                      THEN r_relocate(fixed_route, v.order, best_position)
                      ELSE fixed_route
         IN IF best_position # v.violation_idx
               /\ check_time_windows(moved, start_time_seconds).all_valid
            THEN [route |-> moved, returned |-> TRUE]
            ELSE r_fix_each(moved, violations, k + 1, arrival_times, start_time_seconds)

\* the passes of the for loop over the sorted violations that are run: for each,
\* fixed_route as the pass finds it, the violation it handles, the position it
\* chooses and whether it returned
RECURSIVE r_fix_passes(_, _, _, _, _)
r_fix_passes(fixed_route, violations, k, arrival_times, start_time_seconds) ==
    IF k > Len(violations) THEN <<>>
    ELSE LET v == violations[k]
             best_position == r_best_position(fixed_route, v, 0, v.violation_idx,
                                              arrival_times, start_time_seconds)
             moved == IF best_position # v.violation_idx
                      THEN r_relocate(fixed_route, v.order, best_position)
                      ELSE fixed_route
             returned == best_position # v.violation_idx
                         /\ check_time_windows(moved, start_time_seconds).all_valid
             pass == [fixed_route |-> fixed_route, violation_idx |-> v.violation_idx,
                      violated_order |-> v.order, best_position |-> best_position,
                      moved |-> moved, returned |-> returned]
         IN IF returned THEN <<pass>>
            ELSE <<pass>> \o r_fix_passes(moved, violations, k + 1, arrival_times,
                                          start_time_seconds)

\* the passes of fix_time_window_violations(route, start_time_seconds)
fix_passes(route, start_time_seconds) ==
    LET arrival_times == check_time_windows(route, start_time_seconds).arrival_times
    IN r_fix_passes(route, r_sort_violations(r_violations(route, arrival_times)), 1,
                    arrival_times, start_time_seconds)

\* the inner for loop over orders_without_windows[:], from its j-th element on
RECURSIVE r_append_without(_, _, _, _, _)
r_append_without(final_route, snapshot, j, orders_without_windows, start_time_seconds) ==
    IF j > Len(snapshot)
    THEN [final_route |-> final_route, orders_without_windows |-> orders_without_windows]
    ELSE LET no_tw_order == snapshot[j]
             test_route == Append(final_route, no_tw_order)
         IN IF /\ no_tw_order \notin Range(final_route)
               /\ \/ check_time_windows(test_route, start_time_seconds).all_valid
                  \/ ~(\E i \in 1..Len(test_route) : r_has_time_window(test_route[i]))
            THEN r_append_without(test_route, snapshot, j + 1,
                                  Remove(orders_without_windows, no_tw_order),
                                  start_time_seconds)
            ELSE r_append_without(final_route, snapshot, j + 1, orders_without_windows,
                                  start_time_seconds)

\* the outer for loop over optimized_with_windows, from its i-th element on,
\* then final_route.extend(orders_without_windows)
RECURSIVE r_merge(_, _, _, _, _)
r_merge(optimized_with_windows, i, final_route, orders_without_windows, start_time_seconds) ==
    IF i > Len(optimized_with_windows) THEN final_route \o orders_without_windows
    ELSE LET r == r_append_without(Append(final_route, optimized_with_windows[i]),
                                   orders_without_windows, 1, orders_without_windows,
                                   start_time_seconds)
         IN r_merge(optimized_with_windows, i + 1, r.final_route,
                    r.orders_without_windows, start_time_seconds)

\* the re-optimization of the stops with windows, the others put in after them
r_reconstruct(fixed_route, start_time_seconds) ==
    LET orders_with_windows == SelectSeq(fixed_route, r_has_time_window)
        orders_without_windows == SelectSeq(fixed_route, LAMBDA o : ~r_has_time_window(o))
    IN IF orders_with_windows # <<>>
       THEN r_merge(r_optimize_route(orders_with_windows, start_time_seconds).route, 1,
                    <<>>, orders_without_windows, start_time_seconds)
       ELSE fixed_route

\* RouteOptimizer.fix_time_window_violations(route, start_time_seconds): the route
\* returned and the return statement reached
fix_time_window_violations(route, start_time_seconds) ==
    LET arrival_times == check_time_windows(route, start_time_seconds).arrival_times
        violations == r_violations(route, arrival_times)
        r == r_fix_each(route, r_sort_violations(violations), 1, arrival_times,
                        start_time_seconds)
    IN IF violations = <<>> THEN [route |-> route, path |-> "no violations"]
       ELSE IF r.returned THEN [route |-> r.route, path |-> "relocated"]
       ELSE [route |-> r_reconstruct(r.route, start_time_seconds),
             path |-> "reconstructed"]

\* windows (time_window_start, time_window_end) a stop may be built with
RWindows == {<<None, None>>, <<None, <<8, 10>>>>,
             <<<<8, 0>>, <<8, 15>>>>, <<<<8, 30>>, <<9, 0>>>>}

\* latitude (km of arc) of the stop with id i in the k-th layout
r_latitude(k, i) == IF k = 1 THEN 5 * i ELSE IF k = 2 THEN 10 * (i % 2) ELSE 25 * (i % 2)

RLayouts == 1..3

\* Order.generate_sample_orders(n): ids 1..n, window w[i] for stop i, supplied
\* in ascending order of id, or in descending order when rev
r_sample_orders(n, k, w, rev) ==
    [p \in 1..n |-> LET i == IF rev THEN n + 1 - p ELSE p
                    IN ROrder(i, r_latitude(k, i), w[i][1], w[i][2])]

RInputs == {r_sample_orders(n, k, w, rev) : n \in 0..MaxStops, k \in RLayouts,
                                            w \in [Ids -> RWindows], rev \in BOOLEAN}

\* the lists a later load_orders call is given
RLoadInputs == {r_sample_orders(n, 1, [i \in Ids |-> x], FALSE) : n \in 0..MaxStops,
                                                                 x \in RWindows}

(***************************************************************************)
(* src/goodspeed_route_analyzer.py                                         *)
(***************************************************************************)
\* DeliveryPoint.__init__
DeliveryPoint(id) == [id |-> id, is_completed |-> FALSE, state |-> "pending"]

\* DeliveryPoint.mark_as_completed
point_mark_as_completed(p) == [p EXCEPT !.is_completed = TRUE, !.state = "completed"]

\* DeliveryPoint.set_as_current
set_as_current(p) == IF ~p.is_completed THEN [p EXCEPT !.state = "current"] ELSE p

\* DeliveryPoint.set_as_pending
set_as_pending(p) == IF ~p.is_completed THEN [p EXCEPT !.state = "pending"] ELSE p

\* RouteManager.__init__(route_data), route_data holding ids 1..n
tracker_init(n) ==
    [i \in 1..n |-> IF i = 1 THEN set_as_current(DeliveryPoint(i)) ELSE DeliveryPoint(i)]

\* RouteManager.get_current_point() is not None
has_current_point(points, ci) == 0 <= ci /\ ci < Len(points)

\* the previous target goes back to pending unless completed
release_previous(points, ci) ==
    IF ci < Len(points) /\ ~points[ci + 1].is_completed
    THEN [points EXCEPT ![ci + 1] = set_as_pending(@)]
    ELSE points

\* RouteManager._set_next_current
set_next_current(points, ci) ==
    LET later == {i \in (ci + 1)..(Len(points) - 1) : ~points[i + 1].is_completed}
    IN IF later # {}
       THEN LET i == CHOOSE x \in later : \A y \in later : x <= y
            IN [delivery_points |-> [release_previous(points, ci) EXCEPT
                                        ![i + 1] = set_as_current(@)],
                current_index |-> i]
       ELSE [delivery_points |-> release_previous(points, ci), current_index |-> ci]

\* mutant of mark_as_completed: a point already completed is counted again
mark_as_completed_counts_again(points, ci, cc, delivery_id) ==
    IF ~(\E i \in 1..Len(points) : points[i].id = delivery_id)
    THEN [delivery_points |-> points, current_index |-> ci, completed_count |-> cc,
          value |-> FALSE]
    ELSE LET k == CHOOSE i \in 1..Len(points) :
                      points[i].id = delivery_id
                      /\ \A j \in 1..(i - 1) : points[j].id # delivery_id
             marked == [points EXCEPT ![k] = point_mark_as_completed(@)]
             next == set_next_current(marked, ci)
         IN IF points[k].is_completed
            THEN [delivery_points |-> points, current_index |-> ci,
                  completed_count |-> IF cc < Len(points) + 1 THEN cc + 1 ELSE cc,
                  value |-> TRUE]
            ELSE IF has_current_point(points, ci) /\ k = ci + 1
            THEN [delivery_points |-> next.delivery_points,
                  current_index |-> next.current_index,
                  completed_count |-> cc + 1, value |-> TRUE]
            ELSE [delivery_points |-> marked, current_index |-> ci,
                  completed_count |-> cc + 1, value |-> TRUE]

\* RouteManager.mark_as_completed(delivery_id)
mark_as_completed(points, ci, cc, delivery_id) ==
    IF ~(\E i \in 1..Len(points) : points[i].id = delivery_id)
    THEN [delivery_points |-> points, current_index |-> ci, completed_count |-> cc,
          value |-> FALSE]
    ELSE LET k == CHOOSE i \in 1..Len(points) :
                      points[i].id = delivery_id
                      /\ \A j \in 1..(i - 1) : points[j].id # delivery_id
             marked == [points EXCEPT ![k] = point_mark_as_completed(@)]
             next == set_next_current(marked, ci)
         IN IF points[k].is_completed
            THEN [delivery_points |-> points, current_index |-> ci,
                  completed_count |-> cc, value |-> FALSE]
            ELSE IF has_current_point(points, ci) /\ k = ci + 1
            THEN [delivery_points |-> next.delivery_points,
                  current_index |-> next.current_index,
                  completed_count |-> cc + 1, value |-> TRUE]
            ELSE [delivery_points |-> marked, current_index |-> ci,
                  completed_count |-> cc + 1, value |-> TRUE]

\* mutant of on_marker_click: the previous target is not set back to pending
on_marker_click_keeps_previous(points, ci, k) ==
    IF points[k].is_completed
    THEN [delivery_points |-> points, current_index |-> ci]
    ELSE [delivery_points |-> [points EXCEPT ![k] = set_as_current(@)],
          current_index |-> k - 1]

\* RouteMapView._on_marker_click(point), point being delivery_points[k - 1]
on_marker_click(points, ci, k) ==
    IF points[k].is_completed
    THEN [delivery_points |-> points, current_index |-> ci]
    ELSE LET released == IF has_current_point(points, ci) /\ ci + 1 # k
                         THEN [points EXCEPT ![ci + 1] = set_as_pending(@)]
                         ELSE points
         IN [delivery_points |-> [released EXCEPT ![k] = set_as_current(@)],
             current_index |-> k - 1]

(***************************************************************************)
(* State machine.                                                          *)
(***************************************************************************)
Apps == {"vrptw_manager", "route_optimizer", "goodspeed_route_analyzer"}

\* no optimize_route call is being stepped through
NoLoop == [pc |-> "idle", optimized_route |-> <<>>, remaining_orders |-> <<>>,
           remaining_indices |-> <<>>, current_time |-> 0, current_idx |-> 0]

Returned(v) == [value |-> v, route |-> <<>>, all_valid |-> TRUE, arrival_times |-> <<>>]

BoolName(b) == IF b THEN "True" ELSE "False"

Called(op, start) == [op |-> op, start |-> start]

Init ==
    /\ app \in Apps
    /\ optimizer = None
    /\ travel_time_matrix = None
    /\ current_index = 0
    /\ completed_count = 0
    /\ call = Called("__init__", 0)
    /\ ret = Returned("None")
    /\ out = ""
    /\ \/ /\ app = "vrptw_manager"
          /\ orders \in VInputs
          /\ delivery_points = <<>>
          /\ total_count = 0
       \/ /\ app = "route_optimizer"
          /\ orders \in RInputs
          /\ delivery_points = <<>>
          /\ total_count = 0
       \/ /\ app = "goodspeed_route_analyzer"
          /\ orders = <<>>
          /\ \E n \in 0..MaxStops : /\ delivery_points = tracker_init(n)
                                    /\ total_count = n
    /\ sample_orders = orders
    /\ loop = NoLoop

tracker_vars == <<delivery_points, current_index, completed_count, total_count>>

\* mutant of load_orders: the stops are stored in the opposite order
load_orders_reversed(data) == [i \in 1..Len(data) |-> data[Len(data) + 1 - i]]

\* self.orders = data.copy(): a new list of the same stops
load_orders(data) == data

\* RouteManager.load_orders(data), data being the caller's list from now on
LoadOrders(data) ==
    /\ app \in {"vrptw_manager", "route_optimizer"}
    /\ orders' = load_orders(data)
    /\ sample_orders' = data
    /\ call' = Called("load_orders", 0)
    /\ ret' = Returned("None")
    /\ out' = ""
    /\ UNCHANGED <<app, loop, optimizer, travel_time_matrix, tracker_vars>>

\* RouteManager.move_order(order_id, new_index)
MoveOrder(order_id, new_index) ==
    /\ app = "vrptw_manager"
    /\ LET r == move_order(orders, order_id, new_index)
       IN /\ orders' = r.orders
          /\ ret' = Returned(BoolName(r.value))
          /\ out' = r.out
    /\ call' = Called("move_order", 0)
    /\ UNCHANGED <<app, loop, sample_orders, optimizer, travel_time_matrix, tracker_vars>>

\* the caller's list after a stop of the manager's list was changed in place:
\* data.copy() copies the list, both lists hold the same Order objects
same_objects(data, os) ==
    [i \in 1..Len(data) |->
        IF \E j \in 1..Len(os) : os[j].id = data[i].id
        THEN os[CHOOSE j \in 1..Len(os) : os[j].id = data[i].id]
        ELSE data[i]]

\* RouteManager.mark_order_as_delivered(order_id)
MarkOrderAsDelivered(order_id) ==
    /\ app = "vrptw_manager"
    /\ LET r == mark_order_as_delivered(orders, order_id)
       IN /\ orders' = r.orders
          /\ ret' = Returned(BoolName(r.value))
          /\ out' = r.out
    /\ sample_orders' = same_objects(sample_orders, orders')
    /\ call' = Called("mark_order_as_delivered", 0)
    /\ UNCHANGED <<app, loop, optimizer, travel_time_matrix, tracker_vars>>

\* RouteManager.re_optimize(travel_time_matrix, start_time_minutes)
ReOptimize(M, start_time_minutes) ==
    /\ app = "vrptw_manager"
    /\ optimizer' = re_optimize_optimizer(optimizer, start_time_minutes)
    /\ travel_time_matrix' = M
    /\ orders' = v_optimize_route(orders, M, optimizer'[1])
    /\ call' = Called("re_optimize", start_time_minutes)
    /\ ret' = Returned("None")
    /\ out' = "re-optimized"
    /\ UNCHANGED <<app, loop, sample_orders, tracker_vars>>

\* optimizer.optimize_route(route_manager.get_orders(), start_time_seconds)
OptimizeRoute(start_time_seconds) ==
    /\ app = "route_optimizer"
    /\ LET r == r_optimize_route(orders, start_time_seconds)
       IN ret' = [value |-> "tuple", route |-> r.route, all_valid |-> r.all_valid,
                  arrival_times |-> r.arrival_times]
    /\ call' = Called("optimize_route", start_time_seconds)
    /\ out' = ""
    /\ UNCHANGED <<app, loop, sample_orders, orders, optimizer, travel_time_matrix, tracker_vars>>

\* optimizer.check_time_windows(route_manager.get_orders(), start_time_seconds)
CheckTimeWindows(start_time_seconds) ==
    /\ app = "route_optimizer"
    /\ LET r == check_time_windows(orders, start_time_seconds)
       IN ret' = [value |-> "tuple", route |-> <<>>, all_valid |-> r.all_valid,
                  arrival_times |-> r.arrival_times]
    /\ call' = Called("check_time_windows", start_time_seconds)
    /\ out' = ""
    /\ UNCHANGED <<app, loop, sample_orders, orders, optimizer, travel_time_matrix, tracker_vars>>

\* optimizer.fix_time_window_violations(route_manager.get_orders(), start_time_seconds),
\* then check_time_windows on the route it returns
FixTimeWindowViolations(start_time_seconds) ==
    /\ app = "route_optimizer"
    /\ LET fixed == fix_time_window_violations(orders, start_time_seconds)
           r == check_time_windows(fixed.route, start_time_seconds)
       IN /\ ret' = [value |-> "list", route |-> fixed.route, all_valid |-> r.all_valid,
                     arrival_times |-> r.arrival_times]
          /\ out' = fixed.path
    /\ call' = Called("fix_time_window_violations", start_time_seconds)
    /\ UNCHANGED <<app, loop, sample_orders, orders, optimizer, travel_time_matrix, tracker_vars>>

\* start_time_seconds=28800 of main: 08:00
main_start_time_seconds == 28800

\* main, steps 5 to 7: optimize_route on get_orders(); when not all windows are
\* met, fix_time_window_violations and check_time_windows, and load_orders of
\* the fixed route when that one is valid. ret holds the locals optimized_route,
\* all_valid and arrival_times that the summary prints.
MainOptimize ==
    /\ app = "route_optimizer"
    /\ LET r == r_optimize_route(orders, main_start_time_seconds)
           fixed_route == fix_time_window_violations(r.route, main_start_time_seconds).route
           fixed_valid == check_time_windows(fixed_route, main_start_time_seconds).all_valid
       IN /\ ret' = [value |-> "None", route |-> r.route, all_valid |-> r.all_valid,
                     arrival_times |-> r.arrival_times]
          /\ IF r.all_valid
             THEN UNCHANGED <<orders, sample_orders>> /\ out' = "all windows met"
             ELSE IF fixed_valid
                  THEN /\ orders' = load_orders(fixed_route)
                       /\ sample_orders' = fixed_route
                       /\ out' = "route repaired"
                  ELSE UNCHANGED <<orders, sample_orders>> /\ out' = "not repaired"
    /\ call' = Called("main", main_start_time_seconds)
    /\ UNCHANGED <<app, loop, optimizer, travel_time_matrix, tracker_vars>>

\* RouteManager.mark_as_completed(delivery_id) of the tracker
MarkAsCompleted(delivery_id) ==
    /\ app = "goodspeed_route_analyzer"
    /\ LET r == mark_as_completed(delivery_points, current_index, completed_count,
                                  delivery_id)
       IN /\ delivery_points' = r.delivery_points
          /\ current_index' = r.current_index
          /\ completed_count' = r.completed_count
          /\ ret' = Returned(BoolName(r.value))
    /\ call' = Called("mark_as_completed", 0)
    /\ out' = ""
    /\ UNCHANGED <<app, loop, sample_orders, orders, optimizer, travel_time_matrix, total_count>>

\* RouteMapView._on_marker_click(delivery_points[k - 1])
OnMarkerClick(k) ==
    /\ app = "goodspeed_route_analyzer"
    /\ k \in 1..Len(delivery_points)
    /\ LET r == on_marker_click(delivery_points, current_index, k)
       IN /\ delivery_points' = r.delivery_points
          /\ current_index' = r.current_index
    /\ call' = Called("_on_marker_click", 0)
    /\ ret' = Returned("None")
    /\ out' = ""
    /\ UNCHANGED <<app, loop, sample_orders, orders, optimizer, travel_time_matrix, completed_count,
                   total_count>>

\* RouteMapView._mark_current_completed: completes the current target by its id
MarkCurrentCompleted ==
    /\ app = "goodspeed_route_analyzer"
    /\ has_current_point(delivery_points, current_index)
    /\ LET r == mark_as_completed(delivery_points, current_index, completed_count,
                                  delivery_points[current_index + 1].id)
       IN /\ delivery_points' = r.delivery_points
          /\ current_index' = r.current_index
          /\ completed_count' = r.completed_count
          /\ ret' = Returned(BoolName(r.value))
    /\ call' = Called("_mark_current_completed", 0)
    /\ out' = ""
    /\ UNCHANGED <<app, loop, sample_orders, orders, optimizer, travel_time_matrix, total_count>>

Next ==
    \/ \E data \in VLoadInputs : app = "vrptw_manager" /\ LoadOrders(data)
    \/ \E data \in RLoadInputs : app = "route_optimizer" /\ LoadOrders(data)
    \/ \E order_id \in Ids \cup {UnknownId}, new_index \in Indices :
          MoveOrder(order_id, new_index)
    \/ \E order_id \in Ids \cup {UnknownId} : MarkOrderAsDelivered(order_id)
    \/ \E M \in Matrices(Len(orders)), t \in StartTimes :
          ReOptimize(M, time_to_minutes(t))
    \/ \E t \in StartTimes : OptimizeRoute(time_to_seconds(t))
    \/ \E t \in StartTimes : CheckTimeWindows(time_to_seconds(t))
    \/ \E t \in StartTimes : FixTimeWindowViolations(time_to_seconds(t))
    \/ MainOptimize
    \/ \E delivery_id \in Ids \cup {UnknownId} : MarkAsCompleted(delivery_id)
    \/ \E k \in Ids : OnMarkerClick(k)
    \/ MarkCurrentCompleted

Spec == Init /\ [][Next]_vars

\* The two route managers on their own: the calls that need no optimizer.
InitManagers == Init /\ app \in {"vrptw_manager", "goodspeed_route_analyzer"}

NextManagers ==
    \/ \E data \in VLoadInputs : LoadOrders(data)
    \/ \E order_id \in Ids \cup {UnknownId}, new_index \in Indices :
          MoveOrder(order_id, new_index)
    \/ \E order_id \in Ids \cup {UnknownId} : MarkOrderAsDelivered(order_id)
    \/ \E delivery_id \in Ids \cup {UnknownId} : MarkAsCompleted(delivery_id)
    \/ \E k \in Ids : OnMarkerClick(k)
    \/ MarkCurrentCompleted

SpecManagers == InitManagers /\ [][NextManagers]_vars

(***************************************************************************)
(* optimize_route run one iteration of its while loop at a time.           *)
(***************************************************************************)
\* vrptw_manager optimize_route returns orders.copy() before its loop
v_returns_early(os) ==
    Len(os) <= 1 \/ Len(SelectSeq(os, LAMBDA o : ~o.is_delivered)) <= 1

\* the locals of vrptw_manager optimize_route when its while loop is reached
v_loop_entry(os, start_time_minutes) ==
    LET undelivered == SelectSeq(os, LAMBDA o : ~o.is_delivered)
        undelivered_indices ==
            [k \in 1..Len(undelivered) |-> order_indices(os, undelivered[k].id)]
        orders_with_windows == SelectSeq(undelivered, v_has_time_window)
        first_order == IF orders_with_windows # <<>>
                       THEN v_min_end(orders_with_windows)
                       ELSE undelivered[1]
        first_idx == IndexOf(undelivered, first_order)
    IN [pc |-> "while", optimized_route |-> <<first_order>>,
        remaining_orders |-> PopAt(undelivered, first_idx),
        remaining_indices |-> PopAt(undelivered_indices, first_idx),
        current_time |-> start_time_minutes,
        current_idx |-> order_indices(os, first_order.id)]

\* mutant of v_iteration: no candidate scores below best_score, best_order
\* stays None and the body changes nothing
v_iteration_finds_none(l, M) == l

\* one iteration of the while loop of vrptw_manager optimize_route
v_iteration(l, M) ==
    LET b == v_best_remaining_idx(l.remaining_orders, l.remaining_indices,
                                  l.current_time, l.current_idx, M)
        best_order_idx == l.remaining_indices[b]
    IN [l EXCEPT !.optimized_route = Append(@, l.remaining_orders[b]),
                 !.remaining_orders = PopAt(@, b),
                 !.remaining_indices = PopAt(@, b),
                 !.current_time = @ + M[l.current_idx][best_order_idx],
                 !.current_idx = best_order_idx]

\* the locals of route_optimizer optimize_route when its while loop is reached
r_loop_entry(os, start_time_seconds) ==
    LET orders_with_windows == SelectSeq(os, r_has_time_window)
        first_order == IF orders_with_windows # <<>>
                       THEN r_min_start(orders_with_windows) ELSE os[1]
    IN [pc |-> "while", optimized_route |-> <<first_order>>,
        remaining_orders |-> Remove(os, first_order),
        remaining_indices |-> <<>>,
        current_time |-> IF r_has_time_window(first_order)
                            /\ r_start_seconds(first_order) > start_time_seconds
                         THEN r_start_seconds(first_order) ELSE start_time_seconds,
        current_idx |-> 0]

\* one iteration of the while loop of route_optimizer optimize_route
r_iteration(l) ==
    LET current_order == l.optimized_route[Len(l.optimized_route)]
        best_order == l.remaining_orders[r_best_index(l.remaining_orders, current_order,
                                                      l.current_time)]
        arrived == l.current_time + r_travel(current_order, best_order)
    IN [l EXCEPT !.optimized_route = Append(@, best_order),
                 !.remaining_orders = Remove(@, best_order),
                 !.current_time = IF r_has_time_window(best_order)
                                     /\ arrived < r_start_seconds(best_order)
                                  THEN r_start_seconds(best_order) ELSE arrived]

\* re_optimize up to the while loop of optimize_route, or to its early return
EnterReOptimize(M, start_time_minutes) ==
    /\ app = "vrptw_manager"
    /\ loop.pc = "idle"
    /\ optimizer' = re_optimize_optimizer(optimizer, start_time_minutes)
    /\ travel_time_matrix' = M
    /\ loop' = IF v_returns_early(orders)
               THEN [NoLoop EXCEPT !.pc = "return", !.optimized_route = orders]
               ELSE v_loop_entry(orders, optimizer'[1])
    /\ call' = Called("re_optimize", start_time_minutes)
    /\ UNCHANGED <<app, orders, sample_orders, tracker_vars, ret, out>>

\* route_optimizer optimize_route up to its while loop, or to its early return
EnterOptimizeRoute(start_time_seconds) ==
    /\ app = "route_optimizer"
    /\ loop.pc = "idle"
    /\ loop' = IF Len(orders) <= 1
               THEN [NoLoop EXCEPT !.pc = "return", !.optimized_route = orders]
               ELSE r_loop_entry(orders, start_time_seconds)
    /\ call' = Called("optimize_route", start_time_seconds)
    /\ UNCHANGED <<app, orders, sample_orders, optimizer, travel_time_matrix,
                   tracker_vars, ret, out>>

\* while remaining_orders: one pass through the body
WhileIteration ==
    /\ loop.pc = "while"
    /\ loop.remaining_orders # <<>>
    /\ loop' = IF app = "vrptw_manager" THEN v_iteration(loop, travel_time_matrix)
               ELSE r_iteration(loop)
    /\ UNCHANGED <<app, orders, sample_orders, optimizer, travel_time_matrix,
                   tracker_vars, call, ret, out>>

\* remaining_orders is empty: the loop is left; vrptw_manager appends the
\* delivered stops
ExitWhile ==
    /\ loop.pc = "while"
    /\ loop.remaining_orders = <<>>
    /\ loop' = [loop EXCEPT !.pc = "return",
                            !.optimized_route =
                                IF app = "vrptw_manager"
                                THEN @ \o v_delivered_orders(orders) ELSE @]
    /\ UNCHANGED <<app, orders, sample_orders, optimizer, travel_time_matrix,
                   tracker_vars, call, ret, out>>

\* optimize_route returns: re_optimize stores the route, route_optimizer
\* returns it with the result of check_time_windows
ReturnRoute ==
    /\ loop.pc = "return"
    /\ loop' = [loop EXCEPT !.pc = "done"]
    /\ IF app = "vrptw_manager"
       THEN /\ orders' = loop.optimized_route
            /\ ret' = Returned("None")
            /\ out' = "re-optimized"
       ELSE /\ LET r == IF Len(orders) = 1 THEN r_single(orders, call.start)
                        ELSE check_time_windows(loop.optimized_route, call.start)
               IN ret' = [value |-> "tuple", route |-> loop.optimized_route,
                          all_valid |-> r.all_valid, arrival_times |-> r.arrival_times]
            /\ UNCHANGED <<orders, out>>
    /\ UNCHANGED <<app, sample_orders, optimizer, travel_time_matrix, tracker_vars, call>>

InitLoops == Init /\ app \in {"vrptw_manager", "route_optimizer"}

NextLoops ==
    \/ \E M \in Matrices(Len(orders)), t \in StartTimes :
          EnterReOptimize(M, time_to_minutes(t))
    \/ \E t \in StartTimes : EnterOptimizeRoute(time_to_seconds(t))
    \/ WhileIteration
    \/ ExitWhile
    \/ ReturnRoute

\* the code is sequential: a call that has been entered keeps running
SpecLoops == InitLoops /\ [][NextLoops]_vars /\ WF_vars(NextLoops)

(***************************************************************************)
(* The caller building its list of stops, one Order(...) at a time.         *)
(***************************************************************************)
\* 'HH:MM' values (or None) a caller may pass for either end of a window
WindowTimes == {None, <<8, 0>>, <<8, 15>>, <<8, 30>>}

\* order = Order(id=i + 1, ..., time_window_start, time_window_end) and
\* sample_orders.append(order) in route_optimizer; a ValueError of
\* __post_init__ leaves the list as it is
NewOrder(time_window_start, time_window_end) ==
    /\ app = "route_optimizer"
    /\ Len(sample_orders) < MaxStops
    /\ IF r_post_init_raises(time_window_start, time_window_end)
       THEN /\ ret' = Returned("ValueError")
            /\ out' = IF time_window_end = None THEN "end required"
                      ELSE "start must be earlier than end"
            /\ UNCHANGED sample_orders
       ELSE /\ ret' = Returned("Order")
            /\ out' = ""
            /\ sample_orders' =
                  Append(sample_orders,
                         ROrder(Len(sample_orders) + 1, r_latitude(1, Len(sample_orders) + 1),
                                time_window_start, time_window_end))
    /\ call' = Called("Order", 0)
    /\ UNCHANGED <<app, loop, orders, optimizer, travel_time_matrix, tracker_vars>>

\* order = Order(id=i + 1, ..., time_window_end, is_delivered=False) and
\* sample_orders.append(order) in vrptw_manager: __post_init__ raises nothing
NewVrptwOrder(time_window_end) ==
    /\ app = "vrptw_manager"
    /\ Len(sample_orders) < MaxStops
    /\ ret' = Returned("Order")
    /\ out' = ""
    /\ sample_orders' = Append(sample_orders,
                               VOrder(Len(sample_orders) + 1, time_window_end, FALSE))
    /\ call' = Called("Order", 0)
    /\ UNCHANGED <<app, loop, orders, optimizer, travel_time_matrix, tracker_vars>>

InitOrders ==
    /\ app \in {"vrptw_manager", "route_optimizer"}
    /\ orders = <<>>
    /\ sample_orders = <<>>
    /\ loop = NoLoop
    /\ optimizer = None
    /\ travel_time_matrix = None
    /\ delivery_points = <<>>
    /\ current_index = 0
    /\ completed_count = 0
    /\ total_count = 0
    /\ call = Called("__init__", 0)
    /\ ret = Returned("None")
    /\ out = ""

NextOrders ==
    \/ \E time_window_start \in WindowTimes, time_window_end \in WindowTimes :
          NewOrder(time_window_start, time_window_end)
    \/ \E time_window_end \in WindowTimes : NewVrptwOrder(time_window_end)

SpecOrders == InitOrders /\ [][NextOrders]_vars

(***************************************************************************)
(* Properties.                                                             *)
(***************************************************************************)
Count(s, x) == Cardinality({i \in 1..Len(s) : s[i] = x})

IsPermutation(a, b) ==
    /\ Len(a) = Len(b)
    /\ \A x \in Range(a) \cup Range(b) : Count(a, x) = Count(b, x)

HasId(s, id) == \E i \in 1..Len(s) : s[i].id = id

\* 0-based position of the stop with this id
PositionOf(s, id) == (CHOOSE i \in 1..Len(s) : s[i].id = id) - 1

AllIds == Ids \cup {UnknownId}

\* C1: the route optimize_route returns holds every input stop exactly once and
\* no other stop, in vrptw_manager (through re_optimize) and in route_optimizer.
C1_ConstructedRouteIsPermutation ==
    [][/\ call'.op = "re_optimize" => IsPermutation(orders', orders)
       /\ call'.op = "optimize_route" => IsPermutation(ret'.route, orders)]_vars

\* a three-stop list was given to optimize_route and came back in another order
C1_Witness ==
    /\ call.op = "optimize_route"
    /\ Len(orders) >= 3
    /\ ret.route # orders
    /\ \E i \in 1..Len(orders) : r_has_time_window(orders[i])

\* the stops A (id 1, no limit), B (id 2, limit 10:00), C (id 3, limit 09:30)
ScenarioABC == <<VOrder(1, None, FALSE), VOrder(2, <<10, 0>>, FALSE),
                 VOrder(3, <<9, 30>>, FALSE)>>

\* the matrix with 15 minutes between every two distinct stops
Uniform15 == get_distance_matrix(3, 15, 0, 0)

\* C2: A, B, C supplied in this order, 15 minutes between every pair, start
\* 08:00: the constructed order is C, B, A.
C2_ScenarioOrderIsCBA ==
    [][(/\ orders = ScenarioABC
        /\ ReOptimize(Uniform15, time_to_minutes(<<8, 0>>))
        /\ optimizer' = <<time_to_minutes(<<8, 0>>)>>)
       => IdsOf(orders') = <<3, 2, 1>>]_vars

\* C3: check_time_windows reports a route not feasible exactly when some stop
\* carrying a time_window_end (a deadline-only stop included) is reached, after
\* waiting for its window start, later than that end.
C3_InfeasibleIffLateForWindowEnd ==
    call.op = "check_time_windows" =>
        (~ret.all_valid <=>
            \E i \in 1..Len(orders) :
                /\ orders[i].time_window_end # None
                /\ ret.arrival_times[i] > time_to_seconds(orders[i].time_window_end))

\* C4: for a one-stop route and start time T the arrival schedule is [T], or
\* [window start] when T is before the window start, from check_time_windows
\* and from optimize_route alike.
C4_SingleStopArrival ==
    (call.op \in {"check_time_windows", "optimize_route"} /\ Len(orders) = 1) =>
        ret.arrival_times =
            <<IF orders[1].time_window_start # None
                 /\ call.start < time_to_seconds(orders[1].time_window_start)
              THEN time_to_seconds(orders[1].time_window_start)
              ELSE call.start>>

\* C5: move_order with new_index < 0 or new_index >= len(orders) returns False
\* and leaves the stored sequence as it was.
C5_OutOfRangeMoveFails ==
    [][call'.op = "move_order" =>
        \A order_id \in AllIds, new_index \in Indices :
            ((new_index < 0 \/ new_index >= Len(orders))
             /\ MoveOrder(order_id, new_index))
            => (ret'.value = "False" /\ orders' = orders)]_vars

\* a move to an index out of range was refused on a list of two or more stops
C5_Witness ==
    /\ call.op = "move_order"
    /\ out = "invalid index"
    /\ ret.value = "False"
    /\ Len(orders) >= 2

\* C6: move_order, mark_order_as_delivered and the tracker's mark_as_completed
\* called with an id no stored stop has return False and change nothing.
C6_UnknownIdFails ==
    [][/\ call'.op = "move_order" =>
            \A order_id \in AllIds, new_index \in Indices :
                (~HasId(orders, order_id) /\ MoveOrder(order_id, new_index))
                => (ret'.value = "False"
                    /\ UNCHANGED <<orders, optimizer, travel_time_matrix>>)
       /\ call'.op = "mark_order_as_delivered" =>
            \A order_id \in AllIds :
                (~HasId(orders, order_id) /\ MarkOrderAsDelivered(order_id))
                => (ret'.value = "False"
                    /\ UNCHANGED <<orders, optimizer, travel_time_matrix>>)
       /\ call'.op = "mark_as_completed" =>
            \A delivery_id \in AllIds :
                (~HasId(delivery_points, delivery_id) /\ MarkAsCompleted(delivery_id))
                => (ret'.value = "False" /\ UNCHANGED tracker_vars)]_vars

\* mark_order_as_delivered was refused for an unknown id while a stop was pending
C6_Witness ==
    /\ call.op = "mark_order_as_delivered"
    /\ out = "order not found"
    /\ ret.value = "False"
    /\ \E i \in 1..Len(orders) : ~orders[i].is_delivered

\* C7: a successful move_order(id, new_index) to another position leaves the
\* stop at new_index, the other stops in their relative order, and the length
\* and the set of stops as they were.
C7_MovePlacesStopAtIndex ==
    [][call'.op = "move_order" =>
        \A order_id \in AllIds, new_index \in Indices :
            (/\ ret'.value = "True"
             /\ MoveOrder(order_id, new_index)
             /\ PositionOf(orders, order_id) # new_index)
            => /\ Len(orders') = Len(orders)
               /\ orders'[new_index + 1] = orders[PositionOf(orders, order_id) + 1]
               /\ PopAt(orders', new_index + 1)
                    = PopAt(orders, PositionOf(orders, order_id) + 1)
               /\ IsPermutation(orders', orders)]_vars

\* a stop was moved within a list of three or more stops
C7_Witness ==
    /\ call.op = "move_order"
    /\ out = "moved"
    /\ ret.value = "True"
    /\ Len(orders) >= 3

\* C8: move_order to the stop's current position returns True and leaves the
\* sequence as it was; no move_order call changes a delivered flag, and none
\* touches the optimizer or the travel matrix (no check is run).
C8_MoveIsPureReordering ==
    [][call'.op = "move_order" =>
        \A order_id \in AllIds, new_index \in Indices :
            MoveOrder(order_id, new_index)
            => /\ Range(orders') = Range(orders)
               /\ UNCHANGED <<optimizer, travel_time_matrix>>
               /\ (HasId(orders, order_id) /\ PositionOf(orders, order_id) = new_index)
                  => (ret'.value = "True" /\ orders' = orders)]_vars

\* a stop was moved to the position it already had, next to a delivered stop
C8_Witness ==
    /\ call.op = "move_order"
    /\ out = "already at position"
    /\ ret.value = "True"
    /\ \E i \in 1..Len(orders) : orders[i].is_delivered

\* C9: marking a stop that is already delivered returns success and changes
\* nothing, the completed count included (manager and tracker).
C9_SecondMarkSucceeds ==
    [][/\ call'.op = "mark_order_as_delivered" =>
            \A order_id \in AllIds :
                (/\ MarkOrderAsDelivered(order_id)
                 /\ HasId(orders, order_id)
                 /\ orders[PositionOf(orders, order_id) + 1].is_delivered)
                => (ret'.value = "True" /\ orders' = orders)
       /\ call'.op = "mark_as_completed" =>
            \A delivery_id \in AllIds :
                (/\ MarkAsCompleted(delivery_id)
                 /\ HasId(delivery_points, delivery_id)
                 /\ delivery_points[PositionOf(delivery_points, delivery_id) + 1]
                        .is_completed)
                => (ret'.value = "True" /\ UNCHANGED tracker_vars)]_vars

Delivered(s) == {s[i].id : i \in {j \in 1..Len(s) : s[j].is_delivered}}

Completed(s) == {s[i].id : i \in {j \in 1..Len(s) : s[j].is_completed}}

\* C10: a delivered stop stays delivered through every move, mark, re-optimize,
\* marker click and current-target update, and a pending stop becomes
\* delivered only in a mark call naming its id.
C10_DeliveredIsOneWay ==
    [][/\ (app = "vrptw_manager" /\ call'.op # "load_orders") =>
            /\ Delivered(orders) \subseteq Delivered(orders')
            /\ \A id \in Delivered(orders') \ Delivered(orders) :
                  MarkOrderAsDelivered(id)
       /\ app = "goodspeed_route_analyzer" =>
            /\ Completed(delivery_points) \subseteq Completed(delivery_points')
            /\ \A id \in Completed(delivery_points') \ Completed(delivery_points) :
                  \/ MarkAsCompleted(id)
                  \/ /\ MarkCurrentCompleted
                     /\ delivery_points[current_index + 1].id = id]_vars

\* a delivered stop is still delivered after a re-optimization of three stops
C10_Witness ==
    /\ call.op = "re_optimize"
    /\ Len(orders) >= 3
    /\ Delivered(orders) # {}
    /\ Delivered(orders) # Range(IdsOf(orders))

\* every pending stop stands before every delivered stop
PendingFirst(s) ==
    \A i \in 1..Len(s), j \in 1..Len(s) : (i < j /\ s[i].is_delivered) => s[j].is_delivered

\* C11: after every re_optimize call the stored sequence is all pending stops
\* followed by all delivered stops, the delivered ones in the relative order
\* they had before the call.
C11_PendingThenDelivered ==
    [][call'.op = "re_optimize" =>
        /\ PendingFirst(orders')
        /\ v_delivered_orders(orders') = v_delivered_orders(orders)]_vars

\* C13: every re_optimize(matrix, start_time) call builds the route with the
\* start time passed to that call and records it as the optimizer's start time.
C13_StartTimeOfThisCall ==
    [][call'.op = "re_optimize" =>
        \A M \in Matrices(Len(orders)), t \in StartTimes :
            ReOptimize(M, time_to_minutes(t))
            => /\ optimizer' = <<time_to_minutes(t)>>
               /\ orders' = v_optimize_route(orders, M, time_to_minutes(t))]_vars

\* a window end 'HH:MM' in minutes since midnight
EndOf(o) == o.time_window_end[1] * 60 + o.time_window_end[2]

\* the stops of a list that are still to be visited, in list order
Pending(s) == SelectSeq(s, LAMBDA o : ~o.is_delivered)

\* id of the stop with the earliest window end, the lowest id among those tied;
\* the lowest id of all when no stop has a window end
SeedId(s) ==
    LET all == Range(s)
        ended == {o \in all : o.time_window_end # None}
    IN IF ended # {}
       THEN (CHOOSE o \in ended :
                \A x \in ended : EndOf(o) < EndOf(x) \/ (EndOf(o) = EndOf(x) /\ o.id <= x.id)).id
       ELSE (CHOOSE o \in all : \A x \in all : o.id <= x.id).id

\* C19: the first stop of a constructed route is the stop with the earliest
\* window end (the lowest id among ties), or the stop with the lowest id when
\* no stop has a window end, whatever the order the stops were supplied in.
C19_SeedIsEarliestEndThenLowestId ==
    [][/\ (call'.op = "re_optimize" /\ Len(Pending(orders)) >= 2)
            => orders'[1].id = SeedId(Pending(orders))
       /\ (call'.op = "optimize_route" /\ orders # <<>>)
            => ret'.route[1].id = SeedId(orders)]_vars

\* route[k + 1] has the least score among route[k + 1 ..], the lowest id among
\* ties, and so has every later stop; score = travel + 100 * lateness (minutes)
RECURSIVE VFollowsScore(_, _, _, _, _)
VFollowsScore(route, k, current_time, M, os) ==
    IF k >= Len(route) THEN TRUE
    ELSE LET cur == order_indices(os, route[k].id)
             travel(c) == M[cur][order_indices(os, c.id)]
             late(c) == IF c.time_window_end # None /\ current_time + travel(c) > EndOf(c)
                        THEN current_time + travel(c) - EndOf(c) ELSE 0
             score(c) == travel(c) + 100 * late(c)
             nxt == route[k + 1]
         IN /\ \A j \in (k + 1)..Len(route) :
                  \/ score(nxt) < score(route[j])
                  \/ score(nxt) = score(route[j]) /\ nxt.id <= route[j].id
            /\ VFollowsScore(route, k + 1, current_time + travel(nxt), M, os)

\* the same for route_optimizer, times in seconds and the score counted in
\* sixtieths: 60 * travel + wait before the window start + 6000 * lateness
RECURSIVE RFollowsScore(_, _, _)
RFollowsScore(route, k, current_time) ==
    IF k >= Len(route) THEN TRUE
    ELSE LET arrival(c) == current_time + r_travel(route[k], c)
             wait(c) == IF c.time_window_start # None
                           /\ arrival(c) < time_to_seconds(c.time_window_start)
                        THEN time_to_seconds(c.time_window_start) - arrival(c) ELSE 0
             late(c) == IF c.time_window_end # None
                           /\ arrival(c) > time_to_seconds(c.time_window_end)
                        THEN arrival(c) - time_to_seconds(c.time_window_end) ELSE 0
             score(c) == 60 * r_travel(route[k], c) + wait(c) + 6000 * late(c)
             nxt == route[k + 1]
         IN /\ \A j \in (k + 1)..Len(route) :
                  \/ score(nxt) < score(route[j])
                  \/ score(nxt) = score(route[j]) /\ nxt.id <= route[j].id
            /\ RFollowsScore(route, k + 1, arrival(nxt) + wait(nxt))

\* C20: at each construction step the next stop is the unplaced stop with the
\* least score, score = travel + wait before the window start / 60 + 100 *
\* lateness past the window end and nothing else, the lowest id among ties.
C20_NextStopHasLeastScore ==
    [][/\ (call'.op = "re_optimize" /\ Len(Pending(orders)) >= 2)
            => VFollowsScore(Pending(orders'), 1, optimizer'[1], travel_time_matrix',
                             orders)
       /\ (call'.op = "optimize_route" /\ Len(orders) >= 2)
            => RFollowsScore(ret'.route, 1,
                             IF ret'.route[1].time_window_start # None
                                /\ time_to_seconds(ret'.route[1].time_window_start)
                                     > call'.start
                             THEN time_to_seconds(ret'.route[1].time_window_start)
                             ELSE call'.start)]_vars

\* C12: the optimization flow runs optimize_route on the stored stops, then
\* check_time_windows, then fix_time_window_violations exactly when the
\* constructed order is not feasible, and stores the repaired order in that
\* case and the constructed order otherwise.
C12_StoresConstructedOrRepaired ==
    [][call'.op = "main" =>
        LET r == r_optimize_route(orders, main_start_time_seconds)
        IN orders' = IF r.all_valid THEN r.route
                     ELSE fix_time_window_violations(r.route,
                                                     main_start_time_seconds).route]_vars

\* C14: fix_time_window_violations on a route check_time_windows reports valid
\* returns the same stops in the same order; so does a second run on its result.
C14_RepairOfFeasibleIsIdentity ==
    (call.op = "fix_time_window_violations"
     /\ check_time_windows(orders, call.start).all_valid)
    => /\ ret.route = orders
       /\ fix_time_window_violations(ret.route, call.start).route = ret.route

\* a valid route of three stops, one reached exactly at its window end, was
\* given to fix_time_window_violations
C14_Witness ==
    /\ call.op = "fix_time_window_violations"
    /\ Len(orders) >= 3
    /\ check_time_windows(orders, call.start).all_valid
    /\ \E i \in 1..Len(orders) :
          /\ r_has_time_window(orders[i])
          /\ ret.arrival_times[i] = r_end_seconds(orders[i])

\* C15: for every route, one whose windows cannot all be met included,
\* fix_time_window_violations returns a route holding every stop of the input
\* exactly once, whether it returns after a relocation or after the
\* re-construction of the stops with windows.
C15_RepairReturnsPermutation ==
    call.op = "fix_time_window_violations" => IsPermutation(ret.route, orders)

\* the re-construction was reached on three stops, changed their order and
\* still returned a route that is not valid
C15_Witness ==
    /\ call.op = "fix_time_window_violations"
    /\ out = "reconstructed"
    /\ Len(orders) >= 3
    /\ ret.route # orders
    /\ ~ret.all_valid
    /\ \E i \in 1..Len(orders) : ~r_has_time_window(orders[i])

\* C16: constructing a stop whose window start is not before its window end
\* raises an error and creates no stop; a stop whose start is before its end,
\* or that has only a window end, is created with the window it was given.
C16_WindowStartBeforeEnd ==
    [][call'.op = "Order" =>
        /\ \A time_window_start \in WindowTimes, time_window_end \in WindowTimes :
             NewOrder(time_window_start, time_window_end) =>
                IF time_window_end = None THEN TRUE
                ELSE IF time_window_start # None
                        /\ time_to_seconds(time_window_start) >= time_to_seconds(time_window_end)
                THEN ret'.value = "ValueError" /\ sample_orders' = sample_orders
                ELSE /\ ret'.value = "Order"
                     /\ Len(sample_orders') = Len(sample_orders) + 1
                     /\ SubSeq(sample_orders', 1, Len(sample_orders)) = sample_orders
                     /\ sample_orders'[Len(sample_orders')].time_window_start
                          = time_window_start
                     /\ sample_orders'[Len(sample_orders')].time_window_end
                          = time_window_end
        /\ \A time_window_end \in WindowTimes \ {None} :
             NewVrptwOrder(time_window_end) =>
                /\ ret'.value = "Order"
                /\ sample_orders'[Len(sample_orders')].time_window_end = time_window_end]_vars

\* a window whose start is not before its end was refused after two stops,
\* one of them with only a window end, had been created
C16_Witness ==
    /\ call.op = "Order"
    /\ ret.value = "ValueError"
    /\ out = "start must be earlier than end"
    /\ Len(sample_orders) = 2
    /\ \E i \in 1..2 : /\ sample_orders[i].time_window_start = None
                       /\ sample_orders[i].time_window_end # None

\* C18: load_orders stores exactly the stops supplied, in the order supplied
\* and with the delivered flags supplied, in place of the stops stored before,
\* and runs no optimization; no later move_order or re_optimize reorders the
\* caller's list.
C18_LoadReplacesSequence ==
    [][/\ (app = "vrptw_manager" /\ call'.op = "load_orders") =>
            \A data \in VLoadInputs :
                LoadOrders(data) => /\ orders' = data
                                    /\ UNCHANGED <<optimizer, travel_time_matrix>>
       /\ (app = "route_optimizer" /\ call'.op = "load_orders") =>
            \A data \in RLoadInputs : LoadOrders(data) => orders' = data
       /\ call'.op \in {"move_order", "re_optimize"} =>
            IdsOf(sample_orders') = IdsOf(sample_orders)]_vars

\* two or more stops, one supplied as delivered, were loaded into a manager
\* that had optimized the stops it held before
C18_Witness ==
    /\ call.op = "load_orders"
    /\ optimizer # None
    /\ Len(orders) >= 2
    /\ orders = sample_orders
    /\ Delivered(orders) # {}
    /\ Delivered(orders) # Range(IdsOf(orders))

\* C17: every operation comes to an end on every finite list of stops; the
\* construction loop takes one stop out of the unplaced ones on every
\* iteration, so it runs at most as many times as there are stops, and the
\* call returns.
C17_ConstructionLoopTerminates ==
    /\ [][loop.pc = "while" =>
            /\ Len(loop.optimized_route) + Len(loop.remaining_orders) <= Len(orders)
            /\ (loop'.pc = "while" /\ loop' # loop) =>
                 /\ Len(loop'.remaining_orders) = Len(loop.remaining_orders) - 1
                 /\ Len(loop'.optimized_route) = Len(loop.optimized_route) + 1]_vars
    /\ (loop.pc = "while") ~> (loop.pc = "done")

\* a construction loop over three unplaced stops has run and the call returned
C17_Witness ==
    /\ loop.pc = "done"
    /\ Len(orders) >= 3
    /\ IF app = "vrptw_manager"
       THEN Len(Pending(orders)) >= 3 /\ \E i \in 1..Len(orders) : v_has_time_window(orders[i])
       ELSE ret.route # orders /\ ~ret.all_valid

\* C24: the stored sequence of vrptw_manager holds every id of the stops handed
\* to the manager exactly once and no other id, after any sequence of
\* move_order, mark_order_as_delivered and re_optimize calls.
C24_StoredIsPermutationOfLoaded ==
    app = "vrptw_manager" =>
        /\ IsPermutation(IdsOf(orders), IdsOf(sample_orders))
        /\ IsPermutation(orders, sample_orders)

\* three stops, one delivered, stand in another order than they were loaded in
\* after a re-optimization
C24_Witness ==
    /\ app = "vrptw_manager"
    /\ call.op = "re_optimize"
    /\ Len(orders) >= 3
    /\ IdsOf(orders) # IdsOf(sample_orders)
    /\ Delivered(orders) # {}

\* C27: the flag and the arrival times optimize_route returns with its route
\* are what check_time_windows returns for that route and the same start time,
\* for the empty list, one stop and more stops.
C27_ReturnedScheduleIsTheCheckers ==
    call.op = "optimize_route" =>
        LET r == check_time_windows(ret.route, call.start)
        IN ret.all_valid = r.all_valid /\ ret.arrival_times = r.arrival_times

\* number of delivery points whose is_completed flag is set
CompletedPoints == Cardinality({i \in 1..Len(delivery_points) : delivery_points[i].is_completed})

\* C28: in the tracker completed_count is the number of points whose
\* is_completed flag is set, never more than total_count, and every such point
\* has state 'completed'.
C28_CompletedCountMatchesFlags ==
    app = "goodspeed_route_analyzer" =>
        /\ completed_count = CompletedPoints
        /\ completed_count <= total_count
        /\ \A i \in 1..Len(delivery_points) :
              delivery_points[i].is_completed => delivery_points[i].state = "completed"

\* a second mark of a completed point was refused with two points completed
\* and one still open
C28_Witness ==
    /\ app = "goodspeed_route_analyzer"
    /\ call.op = "mark_as_completed"
    /\ ret.value = "False"
    /\ completed_count = 2
    /\ Len(delivery_points) >= 3

\* C29: in the tracker at most one point has state 'current', and a point in
\* that state is the one at current_index.
C29_OneCurrentAtCurrentIndex ==
    app = "goodspeed_route_analyzer" =>
        \A i \in 1..Len(delivery_points) :
            delivery_points[i].state = "current" => i = current_index + 1

\* a click made a later point the target after another point was completed
C29_Witness ==
    /\ app = "goodspeed_route_analyzer"
    /\ call.op = "_on_marker_click"
    /\ completed_count >= 1
    /\ current_index >= 1
    /\ delivery_points[current_index + 1].state = "current"
    /\ delivery_points[1].state = "pending"

\* C30: in the tracker, whenever some point is not completed,
\* get_current_point returns a point that is not completed.
C30_CurrentPointIsOpen ==
    (app = "goodspeed_route_analyzer"
     /\ \E i \in 1..Len(delivery_points) : ~delivery_points[i].is_completed)
    => /\ has_current_point(delivery_points, current_index)
       /\ ~delivery_points[current_index + 1].is_completed

\* stops of the route whose window the checker finds missed, start being the start time
Violated(route, start) ==
    r_count_violations(route, check_time_windows(route, start).arrival_times)

\* C26: the route fix_time_window_violations returns has no more stops with a
\* missed window, by check_time_windows with the same start time, than the route
\* it was given, from the relocation return and from the re-construction return.
C26_RepairNeverAddsViolations ==
    call.op = "fix_time_window_violations" =>
        Violated(ret.route, call.start) <= Violated(orders, call.start)

\* 0-based position of the stop in the route
OwnPosition(route, o) == IndexOf(route, o) - 1

\* positions other than the stop's own at which the whole route is valid
FeasiblePositions(route, o, start) ==
    {p \in 0..(Len(route) - 1) :
        p # OwnPosition(route, o)
        /\ check_time_windows(r_relocate(route, o, p), start).all_valid}

\* C21: in every pass of the relocation loop the one position left out is the
\* position the violated stop stands at in the current route, and when some
\* other position makes the whole route valid the first such position is taken
\* and the repair returns the route with the stop there.
C21_FirstFeasiblePositionReturned ==
    call.op = "fix_time_window_violations" =>
        \A k \in 1..Len(fix_passes(orders, call.start)) :
            LET pass == fix_passes(orders, call.start)[k]
                feasible == FeasiblePositions(pass.fixed_route, pass.violated_order, call.start)
            IN /\ pass.violation_idx = OwnPosition(pass.fixed_route, pass.violated_order)
               /\ feasible # {} =>
                     /\ pass.returned
                     /\ out = "relocated"
                     /\ \A p \in feasible : pass.best_position <= p
                     /\ ret.route = r_relocate(pass.fixed_route, pass.violated_order,
                                               pass.best_position)

\* the least number of missed windows over all positions the stop can be put at
LeastViolated(route, o, start) ==
    CHOOSE m \in 0..Len(route) :
        /\ \E p \in 0..(Len(route) - 1) : Violated(r_relocate(route, o, p), start) = m
        /\ \A p \in 0..(Len(route) - 1) : Violated(r_relocate(route, o, p), start) >= m

\* C22: in a pass of the relocation loop in which no position makes the whole
\* route valid, the route the pass leaves has the least number of missed windows
\* over all positions of the violated stop, and is the route the pass found when
\* no position gives fewer missed windows than that route has.
C22_EndsAtFewestViolations ==
    call.op = "fix_time_window_violations" =>
        \A k \in 1..Len(fix_passes(orders, call.start)) :
            LET pass == fix_passes(orders, call.start)[k]
                least == LeastViolated(pass.fixed_route, pass.violated_order, call.start)
            IN FeasiblePositions(pass.fixed_route, pass.violated_order, call.start) = {}
               => /\ Violated(pass.moved, call.start) = least
                  /\ least >= Violated(pass.fixed_route, call.start)
                        => pass.moved = pass.fixed_route

\* the route the re-construction is given: fixed_route after the last pass
FixedRoute(route, start) ==
    LET passes == fix_passes(route, start)
    IN IF passes = <<>> THEN route ELSE passes[Len(passes)].moved

HasWindowEnd(o) == o.time_window_end # None

\* the stop put at the leftmost position at which the whole route is valid, at
\* the end when there is none
LeftmostFeasible(route, o, start) ==
    LET feasible == {p \in 0..Len(route) :
                        check_time_windows(InsertAt(route, p + 1, o), start).all_valid}
    IN IF feasible = {} THEN Append(route, o)
       ELSE InsertAt(route, 1 + (CHOOSE p \in feasible : \A x \in feasible : p <= x), o)

\* the stops of without[j..] put one after the other at their leftmost feasible position
RECURSIVE InsertLeftmost(_, _, _, _)
InsertLeftmost(route, without, j, start) ==
    IF j > Len(without) THEN route
    ELSE InsertLeftmost(LeftmostFeasible(route, without[j], start), without, j + 1, start)

\* C23: the route the re-construction returns is the route optimize_route
\* builds from the stops with a window end alone, with every stop without a
\* window end put in at the leftmost position, 0 included, at which the route is
\* valid, or at the end when there is no such position.
C23_ReconstructionPutsLeftmost ==
    (call.op = "fix_time_window_violations" /\ out = "reconstructed") =>
        LET fixed == FixedRoute(orders, call.start)
        IN ret.route = InsertLeftmost(
                           r_optimize_route(SelectSeq(fixed, HasWindowEnd), call.start).route,
                           SelectSeq(fixed, LAMBDA o : ~HasWindowEnd(o)), 1, call.start)

\* the matrix a caller built for the list loaded, read by pair of stops: row i
\* and column j hold the duration from the stop os[i] to the stop os[j]
PairMatrix(os, loaded, M) ==
    [i \in 1..Len(os) |-> [j \in 1..Len(os) |->
        M[order_indices(loaded, os[i].id)][order_indices(loaded, os[j].id)]]]

\* C25: re_optimize builds the route from the durations the matrix holds for
\* each pair of stops of the list loaded, whatever positions move_order or an
\* earlier re_optimize has given the stops in the stored list.
C25_DurationBelongsToPair ==
    [][(app = "vrptw_manager" /\ call'.op = "re_optimize") =>
          orders' = v_optimize_route(orders,
                                     PairMatrix(orders, sample_orders, travel_time_matrix'),
                                     optimizer'[1])]_vars

====
